---- MODULE Spec2Model ----
(***************************************************************************)
(* Model of src/app.py: a Flask application with one route, POST /, whose  *)
(* handler run_command reads the JSON body, takes its "cmd" member, hands  *)
(* it to os.popen, reads the pipe to end-of-stream and returns             *)
(* {"output": <text>} with status 200.                                     *)
(*                                                                         *)
(* The server started by app.run handles every request on a thread of its  *)
(* own, so the requests 1..MaxRequests are handled concurrently.  The      *)
(* spawned shell processes and the host file they may touch are modelled   *)
(* as the environment of the handler.                                      *)
(***************************************************************************)
EXTENDS Integers, Sequences, FiniteSets, TLC

\* Number of requests the server receives in one behaviour.
MaxRequests == 2

Ids == 1..MaxRequests

(***************************************************************************)
(* JSON values as Python sees them after json.loads.                       *)
(***************************************************************************)
None == [t |-> "null"]
Str(s) == [t |-> "str", v |-> s]
Num(n) == [t |-> "num", v |-> n]
Arr == [t |-> "arr"]
Obj(m) == [t |-> "obj", m |-> m]

\* The command strings sent by clients.  NulCmd stands for a JSON string
\* holding the escape \u0000, i.e. a Python str with an embedded NUL.
NulCmd == "echo a\\u0000b"

Cmds ==
  { "echo hello", "exit 1", "", "nosuchprog", "echo a; echo b >&2; exit 3",
    "echo x > f", "cat f", "sleep inf", "exec >&-; sleep 1", "sleep inf &",
    NulCmd }

HasNul(s) == s = NulCmd

\* Parsed JSON documents a body may hold.
JsonDocs ==
  { None, Arr, Str("echo hello"), Num(7) }
  \cup { Obj([other |-> Str("echo hello")]) }
  \cup { Obj([cmd |-> v]) : v \in { None, Num(7), Arr, Obj([other |-> Num(1)]) } }
  \cup { Obj([cmd |-> Str(c)]) : c \in Cmds }

\* Request bodies: a content type and either no bytes, bytes that are not
\* well-formed JSON, or the text of a JSON document.
Bodies ==
  { [ctype |-> "application/json", kind |-> "empty"],
    [ctype |-> "none", kind |-> "empty"],
    [ctype |-> "application/json", kind |-> "malformed"],
    [ctype |-> "text/plain", kind |-> "json", doc |-> Obj([cmd |-> Str("echo hello")])] }
  \cup { [ctype |-> "application/json", kind |-> "json", doc |-> d] : d \in JsonDocs }

GoodBody == [ctype |-> "application/json", kind |-> "json",
             doc |-> Obj([cmd |-> Str("echo hello")])]

\* The requests clients send.
Requests ==
  { [method |-> "POST", path |-> "/", body |-> b] : b \in Bodies }
  \cup { [method |-> m, path |-> p, body |-> GoodBody] :
           m \in {"GET", "OPTIONS", "POST"}, p \in {"/", "/x"} }

NoReq == [method |-> "none"]
NoResp == [status |-> 0]
NoProc == [alive |-> FALSE, spawned |-> FALSE]

\* The host file f that commands may create and read.
Absent == <<>>

VARIABLES req, pc, proc, resp, host, nspawn

vars == <<req, pc, proc, resp, host, nspawn>>

(***************************************************************************)
(* The shell: what /bin/sh -c <text> does, as a list of steps.             *)
(***************************************************************************)
Step(op, arg, rc) == [op |-> op, arg |-> arg, rc |-> rc]

Script(text) ==
  CASE text = "echo hello" -> << Step("out", "hello\n", 0) >>
    [] text = "exit 1" -> << Step("exit", "", 1) >>
    [] text = "" -> << >>
    [] text = "echo a; echo b >&2; exit 3" ->
         << Step("out", "a\n", 0), Step("err", "b\n", 0), Step("exit", "", 3) >>
    [] text = "echo x > f" -> << Step("write", "x\n", 0) >>
    [] text = "cat f" -> << Step("cat", "cat: f: No such file or directory\n", 1) >>
    [] text = "sleep inf" -> << Step("hang", "", 0) >>
    [] text = "exec >&-; sleep 1" -> << Step("close", "", 0) >>
    [] text = "sleep inf &" -> << Step("bg", "", 0) >>
    [] OTHER -> << Step("err", "sh: 1: " \o text \o ": not found\n", 127) >>

(***************************************************************************)
(* Line 6: @app.route('/', methods=['POST']).  The URL map knows the path  *)
(* "/" with the methods POST and, added by Flask, OPTIONS, which Flask     *)
(* answers itself without calling the view function.                       *)
(***************************************************************************)
Html(status, name) == [status |-> status, body |-> [html |-> name]]

RouteAcceptsAll(r) == [status |-> 0, body |-> [view |-> "run_command"]]

Route(r) ==
  IF r.path # "/" THEN Html(404, "Not Found")
  ELSE IF r.method = "OPTIONS" THEN Html(200, "")
  ELSE IF r.method # "POST" THEN Html(405, "Method Not Allowed")
  ELSE [status |-> 0, body |-> [view |-> "run_command"]]

(***************************************************************************)
(* Line 8: data = request.get_json().  The set of outcomes: a value, or an *)
(* HTTP error raised by the framework.  A body whose content type is not   *)
(* JSON is refused with 415 by Flask 2.1 and later and yields None in      *)
(* earlier releases; the repository pins no release.                       *)
(***************************************************************************)
Raise(response) == [ok |-> FALSE, response |-> response]
Value(v) == [ok |-> TRUE, value |-> v]

GetJson(body) ==
  IF body.ctype # "application/json"
  THEN { Raise(Html(415, "Unsupported Media Type")), Value(None) }
  ELSE IF body.kind # "json" THEN { Raise(Html(400, "Bad Request")) }
  ELSE { Value(body.doc) }

InternalServerError == Html(500, "Internal Server Error")

(***************************************************************************)
(* Line 9: cmd = data.get("cmd").  Only a dict has the method get; the     *)
(* AttributeError of any other value is unhandled.  dict.get returns None  *)
(* for a key that is absent.                                               *)
(***************************************************************************)
DataGetLenient(data) ==
  IF data.t = "obj" /\ "cmd" \in DOMAIN data.m THEN Value(data.m["cmd"])
  ELSE Value(Str(""))

DataGet(data) ==
  IF data.t # "obj" THEN Raise(InternalServerError)
  ELSE IF "cmd" \in DOMAIN data.m THEN Value(data.m["cmd"])
  ELSE Value(None)

(***************************************************************************)
(* Line 10: os.popen(cmd).  os.popen raises TypeError unless cmd is a str; *)
(* subprocess.Popen raises ValueError for an embedded NUL; otherwise it    *)
(* runs /bin/sh -c cmd with stdout on a pipe and stderr inherited from the *)
(* server.                                                                 *)
(***************************************************************************)
ArgvQuoted(cmd) ==
  << "/bin/sh", "-c", IF cmd \in {"", "exit 1", "cat f"} THEN cmd ELSE "'" \o cmd \o "'" >>

Argv(cmd) == << "/bin/sh", "-c", cmd >>

NewProc(argv) ==
  [ spawned |-> TRUE, alive |-> TRUE, argv |-> argv, ip |-> 1,
    out |-> <<>>, err |-> <<>>, stdoutOpen |-> TRUE, bg |-> FALSE,
    rc |-> 0, exit |-> -1, view |-> <<"unread">> ]

PopenNoShell(cmd) ==
  IF cmd.t # "str" THEN Raise(InternalServerError)
  ELSE IF HasNul(cmd.v) \/ cmd.v = "nosuchprog" THEN Raise(InternalServerError)
  ELSE Value(NewProc(Argv(cmd.v)))

Popen(cmd) ==
  IF cmd.t # "str" THEN Raise(InternalServerError)
  ELSE IF HasNul(cmd.v) THEN Raise(InternalServerError)
  ELSE Value(NewProc(Argv(cmd.v)))

\* What the process runs: the text after /bin/sh -c.
Program(p) == Script(p.argv[3])

\* The text a shell running the steps k.. of a script sends to its stdout
\* when it is the only process on a host whose file f holds h.
RECURSIVE Stdout(_, _, _)
Stdout(script, k, h) ==
  IF k > Len(script) THEN <<>>
  ELSE LET s == script[k]
       IN  CASE s.op = "out" -> << s.arg >> \o Stdout(script, k + 1, h)
             [] s.op = "cat" -> h \o Stdout(script, k + 1, h)
             [] s.op = "write" -> Stdout(script, k + 1, << s.arg >>)
             [] s.op \in {"exit", "hang", "close"} -> <<>>
             [] OTHER -> Stdout(script, k + 1, h)

(***************************************************************************)
(* Line 10: .read() returns at end-of-stream, that is once every write end *)
(* of the pipe is closed: the shell's own stdout and the copy inherited by *)
(* a background child.  It returns the text written to the pipe.           *)
(***************************************************************************)
AtEOFNonBlocking(p) == TRUE

AtEOF(p) == ~p.stdoutOpen /\ ~p.bg

ReadBoth(p) == p.out \o p.err

\* A result buffer that outlives the call: the text of an earlier answer
\* followed by the text of this process.
HasOutput(response) == response.status # 0 /\ "output" \in DOMAIN response.body

ReadAccumulated(p) ==
  IF \E j \in Ids : HasOutput(resp[j])
  THEN resp[CHOOSE j \in Ids : HasOutput(resp[j])].body.output \o p.out
  ELSE p.out

Read(p) == p.out

(***************************************************************************)
(* Line 11: return {"output": result}, 200.                                *)
(***************************************************************************)
ReturnExitStatus(p) ==
  IF p.exit > 0 THEN [status |-> 500, body |-> [output |-> Read(p), code |-> p.exit]]
  ELSE [status |-> 200, body |-> [output |-> Read(p)]]

Return(p) == [status |-> 200, body |-> [output |-> Read(p)]]

(***************************************************************************)
(* Lines 7-10, up to the point where read() blocks: the outcomes of        *)
(* run_command for a body, each an answer (an unhandled exception becomes  *)
(* the framework's 500) or a spawned process.                              *)
(***************************************************************************)
Answered(response) == [resp |-> response, proc |-> NoProc]
Spawned(p) == [resp |-> NoResp, proc |-> p]

AfterPopen(cmd) ==
  LET p == Popen(cmd)
  IN  IF p.ok THEN Spawned(p.value) ELSE Answered(p.response)

AfterDataGet(data) ==
  LET c == DataGet(data)
  IN  IF c.ok THEN AfterPopen(c.value) ELSE Answered(c.response)

RunCommand(body) ==
  { IF j.ok THEN AfterDataGet(j.value) ELSE Answered(j.response) : j \in GetJson(body) }

\* Lines 6-7: the framework routes the request and calls the view function.
Dispatch(r) ==
  LET route == Route(r)
  IN  IF route.status # 0 THEN { Answered(route) } ELSE RunCommand(r.body)

(***************************************************************************)
(* State after app.run (line 14): no request received, no process, the     *)
(* host file f absent.                                                     *)
(***************************************************************************)
Init ==
  /\ req = [i \in Ids |-> NoReq]
  /\ pc = [i \in Ids |-> "idle"]
  /\ proc = [i \in Ids |-> NoProc]
  /\ resp = [i \in Ids |-> NoResp]
  /\ host = Absent
  /\ nspawn = [i \in Ids |-> 0]

\* Request i arrives with content r and is handled up to the blocking read.
Receive(i, r) ==
  /\ req[i] = NoReq
  /\ \A j \in Ids : j < i => req[j] # NoReq
  /\ \E o \in Dispatch(r) :
       /\ req' = [req EXCEPT ![i] = r]
       /\ resp' = [resp EXCEPT ![i] = o.resp]
       /\ proc' = [proc EXCEPT ![i] = o.proc]
       /\ pc' = [pc EXCEPT ![i] = IF o.proc.spawned THEN "executing" ELSE "idle"]
       /\ nspawn' = [nspawn EXCEPT ![i] = @ + (IF o.proc.spawned THEN 1 ELSE 0)]
  /\ UNCHANGED host

\* The handler of request i gets end-of-stream from read() and returns.
ReadReturn(i) ==
  /\ pc[i] = "executing"
  /\ AtEOF(proc[i])
  /\ resp' = [resp EXCEPT ![i] = Return(proc[i])]
  /\ pc' = [pc EXCEPT ![i] = "idle"]
  /\ UNCHANGED <<req, proc, host, nspawn>>

(***************************************************************************)
(* The spawned shell of request i, one step of its program at a time.      *)
(***************************************************************************)
Running(i) == proc[i].alive
AtStep(i, op) ==
  /\ Running(i)
  /\ proc[i].ip <= Len(Program(proc[i]))
  /\ Program(proc[i])[proc[i].ip].op = op
Cur(i) == Program(proc[i])[proc[i].ip]

ProcOut(i) ==
  /\ AtStep(i, "out")
  /\ proc' = [proc EXCEPT ![i].out = Append(@, Cur(i).arg), ![i].rc = 0, ![i].ip = @ + 1]
  /\ UNCHANGED <<req, pc, resp, host, nspawn>>

ProcErr(i) ==
  /\ AtStep(i, "err")
  /\ proc' = [proc EXCEPT ![i].err = Append(@, Cur(i).arg), ![i].rc = Cur(i).rc,
                           ![i].ip = @ + 1]
  /\ UNCHANGED <<req, pc, resp, host, nspawn>>

ProcWrite(i) ==
  /\ AtStep(i, "write")
  /\ host' = << Cur(i).arg >>
  /\ proc' = [proc EXCEPT ![i].rc = 0, ![i].ip = @ + 1]
  /\ UNCHANGED <<req, pc, resp, nspawn>>

ProcCat(i) ==
  /\ AtStep(i, "cat")
  /\ proc' = [proc EXCEPT
                ![i].out = IF host = Absent THEN @ ELSE @ \o host,
                ![i].err = IF host = Absent THEN Append(@, Cur(i).arg) ELSE @,
                ![i].rc = IF host = Absent THEN Cur(i).rc ELSE 0,
                ![i].view = host,
                ![i].ip = @ + 1]
  /\ UNCHANGED <<req, pc, resp, host, nspawn>>

ProcClose(i) ==
  /\ AtStep(i, "close")
  /\ proc' = [proc EXCEPT ![i].stdoutOpen = FALSE, ![i].ip = @ + 1]
  /\ UNCHANGED <<req, pc, resp, host, nspawn>>

ProcBg(i) ==
  /\ AtStep(i, "bg")
  /\ proc' = [proc EXCEPT ![i].bg = TRUE, ![i].ip = @ + 1]
  /\ UNCHANGED <<req, pc, resp, host, nspawn>>

\* The shell terminates: at "exit n" with status n, at the end of its text
\* with the status of the last command.  Its descriptors are closed.
ProcExit(i) ==
  /\ Running(i)
  /\ \/ proc[i].ip > Len(Program(proc[i]))
     \/ AtStep(i, "exit")
  /\ proc' = [proc EXCEPT
                ![i].alive = FALSE,
                ![i].stdoutOpen = FALSE,
                ![i].exit = IF proc[i].ip > Len(Program(proc[i])) THEN proc[i].rc
                            ELSE Cur(i).rc]
  /\ UNCHANGED <<req, pc, resp, host, nspawn>>

Next ==
  \E i \in Ids :
    \/ \E r \in Requests : Receive(i, r)
    \/ ReadReturn(i)
    \/ ProcOut(i)
    \/ ProcErr(i)
    \/ ProcWrite(i)
    \/ ProcCat(i)
    \/ ProcClose(i)
    \/ ProcBg(i)
    \/ ProcExit(i)

Spec == Init /\ [][Next]_vars

\* read() returns once the pipe is at end-of-stream; nothing is assumed of
\* the spawned processes or of the clients.
FairSpec == Spec /\ \A i \in Ids : WF_vars(ReadReturn(i))

TypeOK ==
  /\ \A i \in Ids : pc[i] \in {"idle", "executing"}
  /\ \A i \in Ids : req[i] = NoReq \/ req[i] \in Requests

(***************************************************************************)
(* Vocabulary of the properties.                                           *)
(***************************************************************************)
Received(i) == req[i] # NoReq
Answer(i) == resp[i].status # 0
Executed(i) == proc[i].spawned
ToHandler(r) == r.method = "POST" /\ r.path = "/"
ParsedObject(r) ==
  /\ ToHandler(r)
  /\ r.body.ctype = "application/json"
  /\ r.body.kind = "json"
  /\ r.body.doc.t = "obj"
HasTextCmd(r) ==
  /\ ParsedObject(r)
  /\ "cmd" \in DOMAIN r.body.doc.m
  /\ r.body.doc.m["cmd"].t = "str"
CmdIs(i, c) == HasTextCmd(req[i]) /\ req[i].body.doc.m["cmd"].v = c
Ok200(i, text) == resp[i] = [status |-> 200, body |-> [output |-> text]]

HostSeen(p) == IF p.view = << "unread" >> THEN Absent ELSE p.view

C3_OutputFromCmdAndHost ==
  \A i \in Ids :
    (HasTextCmd(req[i]) /\ Executed(i) /\ Answer(i)) =>
      Ok200(i, Stdout(Script(req[i].body.doc.m["cmd"].v), 1, HostSeen(proc[i])))

C3_Witness ==
  \E i, j \in Ids :
    /\ i < j
    /\ CmdIs(i, "echo x > f") /\ Answer(i)
    /\ CmdIs(j, "cat f") /\ Ok200(j, << "x\n" >>)

\* C3 (as stated): the output of a call is determined by its cmd alone: it
\* is the output the same cmd gives when no call came before it.
C3_OutputFromCmdAlone ==
  \A i \in Ids :
    (HasTextCmd(req[i]) /\ Executed(i) /\ Answer(i)) =>
      Ok200(i, Stdout(Script(req[i].body.doc.m["cmd"].v), 1, Absent))

\* C4 (as amended): a POST whose body is a JSON object without the key cmd
\* reads None for the field; os.popen refuses None before any shell is
\* spawned and the request is answered with a 500 error, never with 200.
NoCmdKey(r) == ParsedObject(r) /\ "cmd" \notin DOMAIN r.body.doc.m

C4_MissingCmdIs500 ==
  \A i \in Ids :
    (Received(i) /\ NoCmdKey(req[i])) =>
      /\ ~Executed(i)
      /\ nspawn[i] = 0
      /\ pc[i] = "idle"
      /\ resp[i] = InternalServerError

C4_Witness ==
  \E i \in Ids : NoCmdKey(req[i]) /\ resp[i].status = 500 /\ ~Executed(i)

\* C4 (as stated): a POST whose body is a JSON object without the key cmd
\* has the absent value passed to the shell and is answered HTTP 200 with
\* the shell's output.
C4_MissingCmdIs200 ==
  \A i \in Ids :
    (Received(i) /\ NoCmdKey(req[i])) =>
      /\ Executed(i)
      /\ Answer(i) => (resp[i].status = 200 /\ HasOutput(resp[i]))

\* C5 (as amended): a command that names a non-existent executable is
\* still spawned, through the shell, and answered HTTP 200 with empty
\* output (the shell's complaint goes to standard error, its status is
\* 127); only when the shell itself cannot be spawned, as for a command
\* with an embedded NUL, does the request end in a 500 error.
C5_UnknownExecutableIs200 ==
  \A i \in Ids :
    /\ (Received(i) /\ CmdIs(i, "nosuchprog")) =>
         /\ Executed(i)
         /\ Answer(i) => /\ Ok200(i, <<>>)
                         /\ proc[i].exit = 127
                         /\ proc[i].err # <<>>
    /\ (Received(i) /\ CmdIs(i, NulCmd)) =>
         /\ ~Executed(i)
         /\ resp[i] = InternalServerError

C5_Witness ==
  /\ \E i \in Ids : CmdIs(i, "nosuchprog") /\ Ok200(i, <<>>) /\ proc[i].exit = 127
  /\ \E i \in Ids : CmdIs(i, NulCmd) /\ resp[i].status = 500

\* C5 (as stated): a command that names a non-existent executable ends in
\* a server error, not in HTTP 200 with an output member.
C5_UnknownExecutableIs5xx ==
  \A i \in Ids :
    (CmdIs(i, "nosuchprog") /\ Answer(i)) =>
      (resp[i].status >= 500 /\ ~HasOutput(resp[i]))

\* C6: a POST whose body is missing or is not well-formed JSON is answered
\* with an error of the framework before os.popen is reached: no process
\* is spawned and no 200 with an output member is returned.
BadBody(r) == ToHandler(r) /\ r.body.kind \in {"empty", "malformed"}

C6_BadBodyNeverExecutes ==
  \A i \in Ids :
    (Received(i) /\ BadBody(req[i])) =>
      /\ ~Executed(i)
      /\ nspawn[i] = 0
      /\ pc[i] = "idle"
      /\ ~HasOutput(resp[i])
      /\ resp[i].status \in {400, 415, 500}
      /\ "html" \in DOMAIN resp[i].body

C6_Witness ==
  /\ \E i \in Ids : BadBody(req[i]) /\ req[i].body.kind = "malformed" /\ resp[i].status = 400
  /\ \E i \in Ids : BadBody(req[i]) /\ req[i].body.kind = "empty" /\ Answer(i)

\* C7 (as amended): a request is idle or executing and nothing else, it
\* enters executing and spawns a shell at most once, and its HTTP 200 is
\* never produced before the output of its process was read to
\* end-of-stream; the process itself may still be running then, since the
\* handler waits for the end of the stream and not for termination.
C7_AnswerOnlyAtEndOfStream ==
  \A i \in Ids :
    /\ pc[i] \in {"idle", "executing"}
    /\ nspawn[i] <= 1
    /\ pc[i] = "executing" => (Executed(i) /\ nspawn[i] = 1 /\ ~Answer(i))
    /\ HasOutput(resp[i]) =>
         /\ pc[i] = "idle"
         /\ Executed(i)
         /\ nspawn[i] = 1
         /\ ~proc[i].stdoutOpen
         /\ ~proc[i].bg
         /\ resp[i].body.output = proc[i].out

C7_Witness ==
  \E i \in Ids :
    /\ CmdIs(i, "exec >&-; sleep 1")
    /\ Ok200(i, <<>>)
    /\ proc[i].alive
    /\ pc[i] = "idle"

\* C7 (as stated): the HTTP 200 of a request is never produced before the
\* process spawned for it has terminated.
C7_AnswerOnlyAfterTermination ==
  \A i \in Ids : HasOutput(resp[i]) => (Executed(i) /\ ~proc[i].alive)

\* C8 (as amended): there is no timeout or cancellation: the only
\* transition out of executing is taken at end-of-stream of the process's
\* output; a request whose process's output reaches end-of-stream is
\* eventually answered, and a request whose output never reaches
\* end-of-stream, whether the shell runs forever or has terminated leaving
\* a background child on the pipe, is never answered.
Leaves(i) == pc[i] = "executing" /\ pc'[i] # "executing"
NeverEnds(i) == CmdIs(i, "sleep inf") \/ CmdIs(i, "sleep inf &")

C8_LeavesOnlyAtEndOfStream ==
  /\ [][\A i \in Ids : Leaves(i) => (~proc[i].stdoutOpen /\ ~proc[i].bg)]_vars
  /\ \A i \in Ids :
       (pc[i] = "executing" /\ ~proc[i].stdoutOpen /\ ~proc[i].bg)
         ~> (pc[i] = "idle" /\ HasOutput(resp[i]))
  /\ [](\A i \in Ids : (Received(i) /\ NeverEnds(i)) => (pc[i] = "executing" /\ ~Answer(i)))

C8_Witness ==
  /\ \E i \in Ids : CmdIs(i, "sleep inf &") /\ ~proc[i].alive /\ pc[i] = "executing"
  /\ \E i \in Ids : CmdIs(i, "exec >&-; sleep 1") /\ proc[i].alive /\ HasOutput(resp[i])

\* C8 (as stated): no transition out of executing exists other than the
\* termination of the process.
C8_LeavesOnlyAtTermination ==
  [][\A i \in Ids : Leaves(i) => ~proc[i].alive]_vars

====
